---- MODULE Spec2Model ----
(***************************************************************************)
(* Trash tree model of the recycle-bin plugin.                             *)
(*                                                                         *)
(* The repository ships the same design twice: the bundled plugin          *)
(* src/main.js (definitions prefixed B_) and the modular plugin            *)
(* src/src/main.js (definitions prefixed M_).  The variable `variant`      *)
(* says which of the two a behaviour runs.                                 *)
(*                                                                         *)
(* Strings are sequences of one-character strings, so that split, join,    *)
(* replace, includes and the two path regexes are computed, not assumed.   *)
(* File content is a sequence of bytes; adapter.read/write go through      *)
(* UTF-8 text, adapter.rename does not.                                    *)
(***************************************************************************)
EXTENDS Integers, Sequences, FiniteSets, TLC

VARIABLES variant, fs, items, last, view, tasks, plugin

vars == <<variant, fs, items, last, view, tasks, plugin>>

(***************************************************************************)
(* Bounds of the model                                                     *)
(***************************************************************************)
\* Date.now() is NowDays whole days after the epoch
NowDays == 10
\* thresholds passed to purgeOlderThan are 1..MaxDays
MaxDays == 2
\* the injected storage fault hits the k-th adapter call, k in 1..MaxFault
MaxFault == 8

(***************************************************************************)
(* Strings                                                                 *)
(***************************************************************************)
SLASH == "/"

\* the first `n` characters of s, and s without them
Take(s, n) == SubSeq(s, 1, n)
Drop(s, n) == SubSeq(s, n + 1, Len(s))

\* String.prototype.startsWith
StartsWith(s, pre) ==
    /\ Len(pre) <= Len(s)
    /\ Take(s, Len(pre)) = pre

\* the positions at which `sub` occurs in s
Occurrences(s, sub) ==
    { i \in 1..(Len(s) - Len(sub) + 1) : SubSeq(s, i, i + Len(sub) - 1) = sub }

\* String.prototype.includes
Includes(s, sub) == Occurrences(s, sub) # {}

SetMin(S) == CHOOSE x \in S : \A y \in S : x <= y
SetMax(S) == CHOOSE x \in S : \A y \in S : y <= x

\* String.prototype.replace(pattern, replacement) with a string pattern:
\* only the first occurrence is replaced
ReplaceFirst(s, pat, rep) ==
    IF ~Includes(s, pat) THEN s
    ELSE LET i == SetMin(Occurrences(s, pat))
         IN Take(s, i - 1) \o rep \o Drop(s, i + Len(pat) - 1)

\* String.prototype.split('/')
RECURSIVE Split(_)
Split(s) ==
    IF ~Includes(s, <<SLASH>>) THEN <<s>>
    ELSE LET i == SetMin(Occurrences(s, <<SLASH>>))
         IN <<Take(s, i - 1)>> \o Split(Drop(s, i))

\* Array.prototype.join('/')
RECURSIVE Join(_)
Join(parts) ==
    IF Len(parts) = 0 THEN <<>>
    ELSE IF Len(parts) = 1 THEN parts[1]
    ELSE parts[1] \o <<SLASH>> \o Join(Tail(parts))

\* Array.prototype.slice(0, -1)
ButLast(parts) == IF Len(parts) = 0 THEN <<>> ELSE SubSeq(parts, 1, Len(parts) - 1)

(***************************************************************************)
(* Constants and path utilities of the two plugins                         *)
(***************************************************************************)
TRASH_FOLDER == <<".", "t", "r", "a", "s", "h">>

\* a path of the vault, once trashed
InTrash(p) == TRASH_FOLDER \o <<SLASH>> \o p

\* the vault paths that items were trashed from
VaultA == <<"a">>
VaultCD == <<"c", ".", ".", "d">>
VaultN == <<"n">>
VaultNT == <<"n", SLASH, "t">>
VaultB == <<"B">>
VaultNB == <<"n", SLASH, "B">>
VaultUpperA == <<"A">>
VaultNN == <<"n", SLASH, "n">>
VaultNNT == <<"n", SLASH, "n", SLASH, "t">>

\* basename(path): path.match(/([^/]+)\/?$/), group 1, else the path itself
basename(path) ==
    LET s == IF Len(path) > 0 /\ path[Len(path)] = SLASH
             THEN Take(path, Len(path) - 1) ELSE path
        slashes == { i \in 1..Len(s) : s[i] = SLASH }
        from == IF slashes = {} THEN 1 ELSE SetMax(slashes) + 1
    IN IF from > Len(s) THEN path ELSE SubSeq(s, from, Len(s))

\* dirname(path): path.match(/^(.+)\/.+/), group 1, else '.'
dirname(path) ==
    LET cuts == { i \in 2..(Len(path) - 1) : path[i] = SLASH }
    IN IF cuts = {} THEN <<".">> ELSE Take(path, SetMax(cuts) - 1)

\* isValidPath(path) of the modular plugin's utils
isValidPath(path) ==
    /\ path # <<>>
    /\ ~Includes(path, <<".", ".">>)
    /\ ~(StartsWith(path, <<SLASH>>) \/ StartsWith(path, <<"\\">>))
    /\ ~Includes(path, <<":", SLASH, SLASH>>)

MsPerDay == 24 * 60 * 60 * 1000

Now == NowDays * MsPerDay

\* daysSince(timestamp) of the bundled plugin; an absent mtime is 0
daysSince(timestamp) ==
    IF timestamp = 0 THEN 0 ELSE (Now - timestamp) \div MsPerDay

(***************************************************************************)
(* The storage adapter (vault.adapter).  fs maps every existing path to    *)
(* its node.  A path without '/' lies in the vault root, which always      *)
(* exists.                                                                 *)
(***************************************************************************)
FileNode(content, mtime) == [kind |-> "file", content |-> content, mtime |-> mtime]
DirNode(mtime) == [kind |-> "dir", content |-> <<>>, mtime |-> mtime]

IsFile(f, p) == p \in DOMAIN f /\ f[p].kind = "file"
IsDir(f, p) == p \in DOMAIN f /\ f[p].kind = "dir"

\* the directory that holds p: <<>> is the vault root
ParentPath(p) == Join(ButLast(Split(p)))

\* ParentPath, computed once for the paths the initial storages are made of
KnownPaths ==
    LET vault == {VaultA, VaultCD, VaultN, VaultNT, VaultB, VaultNB, VaultNN, VaultNNT, VaultUpperA}
    IN {TRASH_FOLDER} \cup vault \cup { InTrash(p) : p \in vault }

ParentTable == [p \in KnownPaths |-> ParentPath(p)]

ParentOf(p) == IF p \in KnownPaths THEN ParentTable[p] ELSE ParentPath(p)

\* q lies strictly beneath directory p
Beneath(q, p) == StartsWith(q, p \o <<SLASH>>) /\ Len(q) > Len(p) + 1

\* q is p or lies beneath it
Within(q, p) == q = p \/ Beneath(q, p)

\* the directory p can take a new entry
DirUsable(f, p) == p = <<>> \/ IsDir(f, p)

\* p and its proper ancestors, <<>> excluded
RECURSIVE Ancestry(_)
Ancestry(p) == IF p = <<>> THEN {} ELSE {p} \cup Ancestry(ParentPath(p))

\* adapter.read decodes the bytes as UTF-8 text: an ASCII byte is its own
\* code point, the three bytes EF BF BD are U+FFFD, and a byte that starts
\* no valid sequence becomes U+FFFD
RECURSIVE Utf8Decode(_)
Utf8Decode(bytes) ==
    IF bytes = <<>> THEN <<>>
    ELSE IF bytes[1] < 128 THEN <<bytes[1]>> \o Utf8Decode(Tail(bytes))
    ELSE IF StartsWith(bytes, <<239, 191, 189>>) THEN <<65533>> \o Utf8Decode(Drop(bytes, 3))
    ELSE <<65533>> \o Utf8Decode(Tail(bytes))

\* adapter.write encodes the text as UTF-8
RECURSIVE Utf8Encode(_)
Utf8Encode(text) ==
    IF text = <<>> THEN <<>>
    ELSE (IF text[1] < 128 THEN <<text[1]>> ELSE <<239, 191, 189>>) \o Utf8Encode(Tail(text))

\* no injected fault
NoFault == [k |-> 0, mode |-> "once"]

\* A run of one operation: the storage, the adapter calls issued so far, the
\* injected fault, the order in which the adapter lists a directory, whether
\* the last call threw, and the last call's value.
\* the one element of a singleton: `The({ e : x \in {v} })` is e with v
\* computed once and named x
The(S) == CHOOSE x \in S : TRUE

Ctx(f, flt, order) ==
    [fs |-> f, log |-> <<>>, flt |-> flt, order |-> order, exc |-> FALSE, v |-> FALSE]

\* the next adapter call is hit by the injected fault
Faulty(c) ==
    LET i == Len(c.log) + 1
    IN /\ c.flt.k > 0
       /\ \/ c.flt.mode = "once" /\ i = c.flt.k
          \/ c.flt.mode = "from" /\ i >= c.flt.k

\* the outcome of the call `name(path)`: it throws when the fault hits it or
\* when `fails`; otherwise storage becomes f and the call returns v.  The log
\* gets <<name, path, whether the call returned>>.
Call(c, name, path, fails, f, v) ==
    LET threw == Faulty(c) \/ fails
    IN [fs    |-> IF threw THEN c.fs ELSE f,
        log   |-> Append(c.log, <<name, path, ~threw>>),
        flt   |-> c.flt,
        order |-> c.order,
        exc   |-> threw,
        v     |-> IF threw THEN FALSE ELSE v]

AdapterExists(c0, p) ==
    The({
      Call(c, "exists", p, FALSE, c.fs, p \in DOMAIN c.fs)
      : c \in {c0} })

\* stat of a missing path is null, which the constructors read as size 0 and
\* no mtime
AdapterStat(c0, p) ==
    The({
      Call(c, "stat", p, FALSE, c.fs,
           IF p \in DOMAIN c.fs
           THEN [size |-> Len(c.fs[p].content), mtime |-> c.fs[p].mtime]
           ELSE [size |-> 0, mtime |-> 0])
      : c \in {c0} })

AdapterRead(c0, p) ==
    The({
      Call(c, "read", p, ~IsFile(c.fs, p), c.fs,
           IF IsFile(c.fs, p) THEN Utf8Decode(c.fs[p].content) ELSE <<>>)
      : c \in {c0} })

AdapterWrite(c0, p, text) ==
    The({
      Call(c, "write", p, IsDir(c.fs, p) \/ ~DirUsable(c.fs, ParentOf(p)),
           [q \in DOMAIN c.fs \cup {p} |->
              IF q = p THEN FileNode(Utf8Encode(text), Now) ELSE c.fs[q]],
           FALSE)
      : c \in {c0} })

\* mkdir creates the directory and its missing ancestors and accepts an
\* existing directory
AdapterMkdir(c0, p) ==
    The({
      Call(c, "mkdir", p, \E q \in Ancestry(p) : IsFile(c.fs, q),
           [q \in DOMAIN c.fs \cup Ancestry(p) |->
              IF q \in DOMAIN c.fs THEN c.fs[q] ELSE DirNode(Now)],
           FALSE)
      : c \in {c0} })

\* rename moves a file, or a directory with everything beneath it
AdapterRename(c0, from, to) ==
    The({
      LET moved == { q \in DOMAIN c.fs : Within(q, from) }
          Target(q) == to \o Drop(q, Len(from))
          Origin(t) == CHOOSE q \in moved : Target(q) = t
      IN Call(c, "rename", from,
              \/ from \notin DOMAIN c.fs
              \/ to \in DOMAIN c.fs
              \/ ~DirUsable(c.fs, ParentOf(to))
              \/ Within(to, from),
              [t \in (DOMAIN c.fs \ moved) \cup { Target(q) : q \in moved } |->
                 IF t \in { Target(q) : q \in moved } THEN c.fs[Origin(t)] ELSE c.fs[t]],
              FALSE)
      : c \in {c0} })

AdapterRemove(c0, p) ==
    The({
      Call(c, "remove", p, ~IsFile(c.fs, p),
           [q \in DOMAIN c.fs \ {p} |-> c.fs[q]], FALSE)
      : c \in {c0} })

\* rmdir(path, true) removes the directory and everything beneath it
AdapterRmdir(c0, p) ==
    The({
      Call(c, "rmdir", p, ~IsDir(c.fs, p),
           [q \in { r \in DOMAIN c.fs : ~Within(r, p) } |-> c.fs[q]], FALSE)
      : c \in {c0} })

(***************************************************************************)
(* Order of strings                                                        *)
(***************************************************************************)
\* UTF-16 code units of the characters that occur in paths
CharCode ==
    ("." :> 46) @@ ("/" :> 47) @@ (":" :> 58) @@ ("A" :> 65) @@ ("B" :> 66) @@
    ("\\" :> 92) @@
    ("a" :> 97) @@ ("c" :> 99) @@ ("d" :> 100) @@ ("h" :> 104) @@ ("n" :> 110) @@
    ("r" :> 114) @@ ("s" :> 115) @@ ("t" :> 116)

\* primary collation weight of the same characters (Intl.Collator with
\* sensitivity 'base': punctuation before letters, case ignored)
CollKey ==
    (":" :> 1) @@ ("." :> 2) @@ ("/" :> 3) @@ ("\\" :> 4) @@
    ("a" :> 11) @@ ("A" :> 11) @@ ("B" :> 12) @@ ("c" :> 13) @@ ("d" :> 14) @@ ("h" :> 18) @@
    ("n" :> 24) @@ ("r" :> 28) @@ ("s" :> 29) @@ ("t" :> 30)

\* three-way lexicographic comparison of two sequences of numbers
RECURSIVE SeqCmp(_, _)
SeqCmp(a, b) ==
    IF a = <<>> /\ b = <<>> THEN 0
    ELSE IF a = <<>> THEN -1
    ELSE IF b = <<>> THEN 1
    ELSE IF a[1] < b[1] THEN -1
    ELSE IF a[1] > b[1] THEN 1
    ELSE SeqCmp(Tail(a), Tail(b))

\* collator.compare(a, b)
CollatorCompare(a, b) ==
    SeqCmp([i \in 1..Len(a) |-> CollKey[a[i]]], [i \in 1..Len(b) |-> CollKey[b[i]]])

\* String.prototype.toLowerCase over the same characters
ToLowerCase(s) ==
    [i \in 1..Len(s) |-> IF s[i] = "A" THEN "a" ELSE IF s[i] = "B" THEN "b" ELSE s[i]]

\* String.prototype.trim: the string without its leading and trailing blanks
RECURSIVE Trim(_)
Trim(s) ==
    IF s = <<>> THEN s
    ELSE IF s[1] = " " THEN Trim(Tail(s))
    ELSE IF s[Len(s)] = " " THEN Trim(ButLast(s))
    ELSE s

\* a.localeCompare(b): the letters decide as for the collator; strings of the
\* same letters are told apart by case, lower case first
CaseKey(ch) == IF ch \in {"A", "B"} THEN 1 ELSE 0

localeCompare(a, b) ==
    IF CollatorCompare(a, b) # 0 THEN CollatorCompare(a, b)
    ELSE SeqCmp([i \in 1..Len(a) |-> CaseKey(a[i])], [i \in 1..Len(b) |-> CaseKey(b[i])])

\* comparison by code units
CodeCompare(a, b) ==
    SeqCmp([i \in 1..Len(a) |-> CharCode[a[i]]], [i \in 1..Len(b) |-> CharCode[b[i]]])

\* the members of a set of strings by ascending code units
RECURSIVE Ascending(_)
Ascending(S) ==
    IF S = {} THEN <<>>
    ELSE LET m == CHOOSE x \in S : \A y \in S : CodeCompare(x, y) <= 0
         IN <<m>> \o Ascending(S \ {m})

Reverse(q) == [i \in 1..Len(q) |-> q[Len(q) + 1 - i]]

\* the orders in which the adapter may list a directory
ListOrders == {"asc", "desc"}

\* an adapter that lists, in ascending order, every directory of the trash
\* with the trash root itself among its folders
SelfListing == "self"

Listed(S, order) == IF order = "desc" THEN Reverse(Ascending(S)) ELSE Ascending(S)

\* adapter.list(path): the files and the folders directly in the directory
AdapterList(c0, p) ==
    The({
      Call(c, "list", p, ~IsDir(c.fs, p), c.fs,
           [files   |-> Listed({ q \in DOMAIN c.fs : ParentOf(q) = p /\ IsFile(c.fs, q) }, c.order),
            folders |-> (IF c.order = SelfListing /\ Within(p, TRASH_FOLDER)
                         THEN <<TRASH_FOLDER>> ELSE <<>>)
                        \o Listed({ q \in DOMAIN c.fs : ParentOf(q) = p /\ IsDir(c.fs, q) },
                                  c.order)])
      : c \in {c0} })

\* an await that never settles: the run ends here, with no further call
NeverSettles(c, p) == [c EXCEPT !.exc = TRUE, !.log = Append(@, <<"never", p, FALSE>>)]

Unending(c) == Len(c.log) > 0 /\ c.log[Len(c.log)][1] = "never"

\* Array.prototype.sort(compareName) over paths: a stable sort
RECURSIVE InsertSorted(_, _)
InsertSorted(sorted, x) ==
    IF sorted = <<>> THEN <<x>>
    ELSE IF CollatorCompare(x, sorted[Len(sorted)]) >= 0 THEN Append(sorted, x)
    ELSE Append(InsertSorted(ButLast(sorted), x), sorted[Len(sorted)])

RECURSIVE SortPaths(_)
SortPaths(q) ==
    IF q = <<>> THEN <<>>
    ELSE InsertSorted(SortPaths(ButLast(q)), q[Len(q)])

(***************************************************************************)
(* Entries of the bundled plugin (src/main.js).  `parent` is the path of   *)
(* the folder object the entry was constructed under; an absent mtime      *)
(* (null) is 0.                                                            *)
(***************************************************************************)
\* a file entry that takes the root for its parent whatever it was built under
B_TrashedFile_orphan(path, stat, parent) ==
    [kind |-> "file", path |-> path, parent |-> TRASH_FOLDER, name |-> basename(path),
     size |-> stat.size, mtime |-> stat.mtime, children |-> <<>>]

B_TrashedFile(path, stat, parent) ==
    [kind |-> "file", path |-> path, parent |-> parent, name |-> basename(path),
     size |-> stat.size, mtime |-> stat.mtime, children |-> <<>>]

B_TrashedFolder(path, stat, parent, children) ==
    [kind |-> "folder", path |-> path, parent |-> parent, name |-> basename(path),
     size |-> 0, mtime |-> stat.mtime, children |-> children]

\* get originalPath()
B_originalPath(e) == ReplaceFirst(e.path, TRASH_FOLDER \o <<SLASH>>, <<>>)

\* get size() of a folder, the size field of a file
RECURSIVE B_size(_)
RECURSIVE B_sizeSum(_)
\* A faulty sum: only the first child is counted.
B_sizeSum_first(children) ==
    IF children = <<>> THEN 0 ELSE B_size(Head(children))

B_sizeSum(children) ==
    IF children = <<>> THEN 0 ELSE B_size(Head(children)) + B_sizeSum(Tail(children))
B_size(e) == IF e.kind = "folder" THEN B_sizeSum(e.children) ELSE e.size

\* get totalSize(): this.root.size, the root's children being the tree
B_totalSize(its) == B_sizeSum(its)

\* buildItems(listing, parent): folders first, then files, each sorted by
\* the collator; the result is [c |-> the run, items |-> the entries built];
\* a throwing adapter call ends it with c.exc
RECURSIVE B_buildItems(_, _, _)
RECURSIVE B_buildFolders(_, _, _, _)
RECURSIVE B_buildFiles(_, _, _, _)
B_buildFiles(c0, files0, parent, acc0) ==
    The({ IF files = <<>> THEN [c |-> c, items |-> acc]
          ELSE The({ IF st.exc THEN [c |-> st, items |-> acc]
                     ELSE B_buildFiles(st, Tail(files), parent,
                                       Append(acc, B_TrashedFile(Head(files), st.v, parent)))
                     : st \in {AdapterStat(c, Head(files))} })
          : c \in {c0}, files \in {files0}, acc \in {acc0} })

\* A listing that holds the trash root makes buildItems build the root's
\* entry: it stats and lists the root, whose listing holds the root again,
\* and so on without end, unless the injected fault is still to come and
\* makes one of those calls throw.
B_buildFolders(c0, folders0, parent, acc0) ==
    The({ IF folders = <<>> THEN [c |-> c, items |-> acc]
          ELSE IF Head(folders) = TRASH_FOLDER /\ c.flt.k <= Len(c.log)
          THEN [c |-> NeverSettles(c, TRASH_FOLDER), items |-> acc]
          ELSE The({
            IF st.exc THEN [c |-> st, items |-> acc]
            ELSE The({
              IF ls.exc THEN [c |-> ls, items |-> acc]
              ELSE The({
                IF sub.c.exc THEN [c |-> sub.c, items |-> acc]
                ELSE B_buildFolders(sub.c, Tail(folders), parent,
                                    Append(acc, B_TrashedFolder(p, st.v, parent, sub.items)))
                : sub \in {B_buildItems(ls, ls.v, p)} })
              : ls \in {AdapterList(st, p)} })
            : p \in {Head(folders)}, st \in {AdapterStat(c, Head(folders))} })
          : c \in {c0}, folders \in {folders0}, acc \in {acc0} })

B_buildItems(c, listing, parent) ==
    The({ IF fo.c.exc THEN fo
          ELSE B_buildFiles(fo.c, SortPaths(listing.files), parent, fo.items)
          : fo \in {B_buildFolders(c, SortPaths(listing.folders), parent, <<>>)} })

\* The outcome of one operation: what storage and the tree become, how the
\* call ended ("true", "false", "void", "count" or "threw"), the count a
\* purge returned, and the adapter calls it issued.
Outcome(c, its, ret, count) ==
    [fs |-> c.fs, items |-> its, ret |-> ret, count |-> count, log |-> c.log]

\* TrashManager.refresh()
B_refresh(c, its) ==
    The({ IF ex.exc THEN Outcome(ex, its, "threw", 0)
          ELSE IF ~ex.v THEN Outcome(ex, <<>>, "void", 0)
          ELSE The({
            IF ls.exc THEN Outcome(ls, its, "threw", 0)
            ELSE The({
              IF built.c.exc
              THEN Outcome(built.c, its, IF Unending(built.c) THEN "never" ELSE "threw", 0)
              ELSE Outcome(built.c, built.items, "void", 0)
              : built \in {B_buildItems(ls, ls.v, TRASH_FOLDER)} })
            : ls \in {AdapterList(ex, TRASH_FOLDER)} })
          : ex \in {AdapterExists(c, TRASH_FOLDER)} })

\* TrashedFolder.removeChild(child): indexOf, then splice
B_removeChild(children, child) ==
    LET hits == { i \in 1..Len(children) : children[i] = child }
    IN IF hits = {} THEN children
       ELSE LET index == SetMin(hits)
            IN SubSeq(children, 1, index - 1) \o SubSeq(children, index + 1, Len(children))

\* this.parent.removeChild(this), seen from the root's children `its`: the
\* parent is the root itself or the folder of the tree with path e.parent
RECURSIVE B_detach(_, _)
B_detach(its, e) ==
    IF e.parent = TRASH_FOLDER THEN B_removeChild(its, e)
    ELSE [i \in 1..Len(its) |->
            IF its[i].kind # "folder" THEN its[i]
            ELSE IF its[i].path = e.parent
                 THEN [its[i] EXCEPT !.children = B_removeChild(@, e)]
                 ELSE [its[i] EXCEPT !.children = B_detach(@, e)]]

\* TrashedFile.restore()
B_TrashedFile_restore(c, its, e) ==
    LET restorePath == B_originalPath(e)
        ex == AdapterExists(c, restorePath)
        parentDir == dirname(restorePath)
        pe == IF parentDir # <<".">> THEN AdapterExists(ex, parentDir) ELSE ex
        mk == IF parentDir # <<".">> /\ ~pe.exc /\ ~pe.v THEN AdapterMkdir(pe, parentDir) ELSE pe
        rn == AdapterRename(mk, e.path, restorePath)
    IN IF ex.exc THEN Outcome(ex, its, "threw", 0)
       ELSE IF ex.v THEN Outcome(ex, its, "false", 0)
       ELSE IF pe.exc THEN Outcome(pe, its, "threw", 0)
       ELSE IF mk.exc THEN Outcome(mk, its, "threw", 0)
       ELSE IF rn.exc THEN Outcome(rn, its, "threw", 0)
       ELSE Outcome(rn, B_detach(its, e), "true", 0)

\* TrashedFolder.restore()
B_TrashedFolder_restore(c, its, e) ==
    LET restorePath == B_originalPath(e)
        ex == AdapterExists(c, restorePath)
        rn == AdapterRename(ex, e.path, restorePath)
    IN IF ex.exc THEN Outcome(ex, its, "threw", 0)
       ELSE IF ex.v THEN Outcome(ex, its, "false", 0)
       ELSE IF rn.exc THEN Outcome(rn, its, "threw", 0)
       ELSE Outcome(rn, B_detach(its, e), "true", 0)

\* TrashedFile.delete()
B_TrashedFile_delete(c, its, e) ==
    LET rm == AdapterRemove(c, e.path)
    IN IF rm.exc THEN Outcome(rm, its, "threw", 0)
       ELSE Outcome(rm, B_detach(its, e), "void", 0)

\* TrashedFolder.delete()
B_TrashedFolder_delete(c, its, e) ==
    LET rm == AdapterRmdir(c, e.path)
    IN IF rm.exc THEN Outcome(rm, its, "threw", 0)
       ELSE Outcome(rm, B_detach(its, e), "void", 0)

B_restore(c, its, e) ==
    IF e.kind = "folder" THEN B_TrashedFolder_restore(c, its, e)
    ELSE B_TrashedFile_restore(c, its, e)

B_delete(c, its, e) ==
    IF e.kind = "folder" THEN B_TrashedFolder_delete(c, its, e)
    ELSE B_TrashedFile_delete(c, its, e)

\* TrashManager.empty()
B_empty(c, its) ==
    LET ex == AdapterExists(c, TRASH_FOLDER)
        rm == AdapterRmdir(ex, TRASH_FOLDER)
    IN IF ex.exc THEN Outcome(ex, its, "threw", 0)
       ELSE IF ~ex.v THEN Outcome(ex, <<>>, "void", 0)
       ELSE IF rm.exc THEN Outcome(rm, its, "threw", 0)
       ELSE Outcome(rm, <<>>, "void", 0)

\* A faulty selection: an old folder is selected and its contents are
\* searched as well, so that the contents are deleted a second time.
RECURSIVE B_findItemsOlderThan_descending(_, _)
B_findItemsOlderThan_descending(its, days) ==
    IF its = <<>> THEN <<>>
    ELSE LET item == Head(its)
         IN (IF daysSince(item.mtime) >= days THEN <<item>> ELSE <<>>)
            \o (IF item.kind = "folder"
                THEN B_findItemsOlderThan_descending(item.children, days)
                ELSE <<>>)
            \o B_findItemsOlderThan_descending(Tail(its), days)

\* TrashManager.findItemsOlderThan(items, days)
RECURSIVE B_findItemsOlderThan(_, _)
B_findItemsOlderThan(its, days) ==
    IF its = <<>> THEN <<>>
    ELSE LET item == Head(its)
         IN (IF daysSince(item.mtime) >= days THEN <<item>>
             ELSE IF item.kind = "folder" THEN B_findItemsOlderThan(item.children, days)
             ELSE <<>>)
            \o B_findItemsOlderThan(Tail(its), days)

\* the loop of purgeOlderThan over itemsToPurge
RECURSIVE B_purgeLoop(_, _, _, _)
B_purgeLoop(c, its, itemsToPurge, purgedCount) ==
    IF itemsToPurge = <<>> THEN Outcome(c, its, "count", purgedCount)
    ELSE LET del == B_delete(c, its, Head(itemsToPurge))
             after == [c EXCEPT !.fs = del.fs, !.log = del.log]
         IN IF del.ret = "threw" THEN Outcome(after, del.items, "threw", 0)
            ELSE B_purgeLoop(after, del.items, Tail(itemsToPurge), purgedCount + 1)

\* TrashManager.purgeOlderThan(days)
B_purgeOlderThan(c, its, days) ==
    B_purgeLoop(c, its, B_findItemsOlderThan(its, days), 0)

\* TrashManager.flattenItems(items) and getFlatList()
RECURSIVE B_flattenItems(_)
\* a flattening that emits the siblings of a folder before its children
B_flattenItems_siblingsFirst(its) ==
    IF its = <<>> THEN <<>>
    ELSE LET item == Head(its)
         IN <<item>>
            \o B_flattenItems(Tail(its))
            \o (IF item.kind = "folder" THEN B_flattenItems(item.children) ELSE <<>>)

B_flattenItems(its) ==
    IF its = <<>> THEN <<>>
    ELSE LET item == Head(its)
         IN <<item>>
            \o (IF item.kind = "folder" THEN B_flattenItems(item.children) ELSE <<>>)
            \o B_flattenItems(Tail(its))

B_getFlatList(its) == B_flattenItems(its)

\* get isEmpty() and get totalCount()
B_isEmpty(its) == Len(its) = 0

RECURSIVE B_countItems(_)
\* a count that does not descend into folders
B_countItems_shallow(its) ==
    IF its = <<>> THEN 0 ELSE 1 + B_countItems(Tail(its))

B_countItems(its) ==
    IF its = <<>> THEN 0
    ELSE 1 + (IF Head(its).kind = "folder" THEN B_countItems(Head(its).children) ELSE 0)
           + B_countItems(Tail(its))

B_totalCount(its) == B_countItems(its)

\* the comparator of RecycleBinView.sortItems
B_compare(a, b, sortBy, sortOrder) ==
    LET multiplier == IF sortOrder = "asc" THEN 1 ELSE -1
    IN IF sortBy = "name" THEN multiplier * localeCompare(a.name, b.name)
       ELSE IF sortBy = "date" THEN multiplier * (a.mtime - b.mtime)
       ELSE IF sortBy = "size" THEN multiplier * (B_size(a) - B_size(b))
       ELSE 0

\* Array.prototype.sort with that comparator: a stable sort
RECURSIVE B_insert(_, _, _, _)
B_insert(sorted, x, sortBy, sortOrder) ==
    IF sorted = <<>> THEN <<x>>
    ELSE IF B_compare(x, sorted[Len(sorted)], sortBy, sortOrder) >= 0 THEN Append(sorted, x)
    ELSE Append(B_insert(ButLast(sorted), x, sortBy, sortOrder), sorted[Len(sorted)])

\* RecycleBinView.sortItems(items)
RECURSIVE B_sortItems(_, _, _)
B_sortItems(list, sortBy, sortOrder) ==
    IF list = <<>> THEN <<>>
    ELSE B_insert(B_sortItems(ButLast(list), sortBy, sortOrder), list[Len(list)],
                  sortBy, sortOrder)

\* RecycleBinView.renderFileList: the flat list, filtered by the search
\* query when there is one, then sorted
B_renderFileList(its, searchQuery, sortBy, sortOrder) ==
    LET flat == B_getFlatList(its)
        query == ToLowerCase(searchQuery)
        found == IF searchQuery # <<>>
                 THEN SelectSeq(flat, LAMBDA item : Includes(ToLowerCase(item.name), query))
                 ELSE flat
    IN IF B_isEmpty(its) THEN <<>> ELSE B_sortItems(found, sortBy, sortOrder)

(***************************************************************************)
(* Entries of the modular plugin (src/src/main.js)                         *)
(***************************************************************************)
\* the constructors' originalPath: the path without its first segment
M_originalPathOf(path) ==
    LET parts == Split(path)
        name == parts[Len(parts)]
        popped == ButLast(parts)
        shifted == IF popped = <<>> THEN <<>> ELSE Tail(popped)
    IN IF Len(shifted) > 0 THEN Join(shifted) \o <<SLASH>> \o name ELSE name

M_nameOf(path) == Split(path)[Len(Split(path))]

M_TrashedFile(path, stat) ==
    [kind |-> "file", path |-> path, name |-> M_nameOf(path),
     originalPath |-> M_originalPathOf(path), stat |-> stat, children |-> <<>>]

M_TrashedFolder(path, children) ==
    [kind |-> "folder", path |-> path, name |-> M_nameOf(path),
     originalPath |-> M_originalPathOf(path), stat |-> [size |-> 0, mtime |-> 0],
     children |-> children]

\* get size() and get mtime() of files and folders
RECURSIVE M_size(_)
RECURSIVE M_sizeSum(_)
M_sizeSum(children) ==
    IF children = <<>> THEN 0 ELSE M_size(Head(children)) + M_sizeSum(Tail(children))
M_size(e) == IF e.kind = "folder" THEN M_sizeSum(e.children) ELSE e.stat.size

RECURSIVE M_mtime(_)
M_mtime(e) ==
    IF e.kind = "file" THEN e.stat.mtime
    ELSE IF Len(e.children) = 0 THEN 0
    ELSE SetMax({ M_mtime(e.children[i]) : i \in 1..Len(e.children) })

\* scanFolder(folderPath, parent): files in listing order, then folders in
\* listing order; its catch ends the scan of this folder and keeps what was
\* pushed so far
RECURSIVE M_scanFolder(_, _)
RECURSIVE M_scanFiles(_, _, _)
RECURSIVE M_scanFolders(_, _, _)
M_scanFiles(c0, files0, acc0) ==
    The({ IF files = <<>> THEN [c |-> c, items |-> acc]
          ELSE The({ IF st.exc THEN [c |-> st, items |-> acc]
                     ELSE M_scanFiles(st, Tail(files),
                                      Append(acc, M_TrashedFile(Head(files), st.v)))
                     : st \in {AdapterStat(c, Head(files))} })
          : c \in {c0}, files \in {files0}, acc \in {acc0} })

M_scanFolders(c0, folders0, acc0) ==
    The({ IF folders = <<>> THEN [c |-> c, items |-> acc]
          ELSE IF Head(folders) = TRASH_FOLDER THEN M_scanFolders(c, Tail(folders), acc)
          ELSE The({ M_scanFolders(sub.c, Tail(folders),
                                   Append(acc, M_TrashedFolder(Head(folders), sub.items)))
                     : sub \in {M_scanFolder(c, Head(folders))} })
          : c \in {c0}, folders \in {folders0}, acc \in {acc0} })

M_scanFolder(c, folderPath) ==
    The({ IF ls.exc THEN [c |-> [ls EXCEPT !.exc = FALSE], items |-> <<>>]
          ELSE The({
            IF fi.c.exc THEN [c |-> [fi.c EXCEPT !.exc = FALSE], items |-> fi.items]
            ELSE M_scanFolders(fi.c, ls.v.folders, fi.items)
            : fi \in {M_scanFiles(ls, ls.v.files, <<>>)} })
          : ls \in {AdapterList(c, folderPath)} })

\* A faulty refresh: the list is not cleared, the scan adds to what it held.
M_refresh_appending(c, its) ==
    LET ex == AdapterExists(c, TRASH_FOLDER)
        sc == M_scanFolder(ex, TRASH_FOLDER)
    IN IF ex.exc THEN Outcome(ex, its, "threw", 0)
       ELSE IF ~ex.v THEN Outcome(ex, its, "void", 0)
       ELSE Outcome(sc.c, its \o sc.items, "void", 0)

\* TrashManager.refresh(): the list is cleared before the first await
M_refresh(c, its) ==
    The({ IF ex.exc THEN Outcome(ex, <<>>, "threw", 0)
          ELSE IF ~ex.v THEN Outcome(ex, <<>>, "void", 0)
          ELSE The({ Outcome(sc.c, sc.items, "void", 0)
                     : sc \in {M_scanFolder(ex, TRASH_FOLDER)} })
          : ex \in {AdapterExists(c, TRASH_FOLDER)} })

\* TrashedFile.restore(): every throw is caught and becomes false
M_TrashedFile_restore(c, its, e) ==
    LET ex == AdapterExists(c, e.originalPath)
        rd == AdapterRead(ex, e.path)
        parentPath == Join(ButLast(Split(e.originalPath)))
        mk == IF parentPath # <<>> THEN AdapterMkdir(rd, parentPath) ELSE rd
        wr == AdapterWrite(mk, e.originalPath, rd.v)
        rm == AdapterRemove(wr, e.path)
    IN IF ~isValidPath(e.originalPath) THEN Outcome(c, its, "false", 0)
       ELSE IF ex.exc \/ ex.v THEN Outcome(ex, its, "false", 0)
       ELSE IF rd.exc THEN Outcome(rd, its, "false", 0)
       ELSE IF mk.exc THEN Outcome(mk, its, "false", 0)
       ELSE IF wr.exc THEN Outcome(wr, its, "false", 0)
       ELSE IF rm.exc THEN Outcome(rm, its, "false", 0)
       ELSE Outcome(rm, its, "true", 0)

\* TrashedFolder.restore(), and the loop over its children
RECURSIVE M_restore(_, _, _)
RECURSIVE M_restoreChildren(_, _, _)
M_restoreChildren(c, its, children) ==
    IF children = <<>> THEN c
    ELSE LET r == M_restore(c, its, Head(children))
         IN M_restoreChildren([c EXCEPT !.fs = r.fs, !.log = r.log], its, Tail(children))

M_TrashedFolder_restore(c, its, e) ==
    LET mk == AdapterMkdir(c, e.originalPath)
        ch == M_restoreChildren(mk, its, e.children)
        rm == AdapterRmdir(ch, e.path)
    IN IF ~isValidPath(e.originalPath) THEN Outcome(c, its, "false", 0)
       ELSE IF mk.exc THEN Outcome(mk, its, "false", 0)
       ELSE IF rm.exc THEN Outcome(rm, its, "false", 0)
       ELSE Outcome(rm, its, "true", 0)

M_restore(c, its, e) ==
    IF e.kind = "folder" THEN M_TrashedFolder_restore(c, its, e)
    ELSE M_TrashedFile_restore(c, its, e)

\* TrashedFile.delete()
M_TrashedFile_delete(c, its, e) ==
    LET rm == AdapterRemove(c, e.path)
    IN IF rm.exc THEN Outcome(rm, its, "false", 0) ELSE Outcome(rm, its, "true", 0)

\* TrashedFolder.delete()
M_TrashedFolder_delete(c, its, e) ==
    LET rm == AdapterRmdir(c, e.path)
    IN IF rm.exc THEN Outcome(rm, its, "false", 0) ELSE Outcome(rm, its, "true", 0)

M_delete(c, its, e) ==
    IF e.kind = "folder" THEN M_TrashedFolder_delete(c, its, e)
    ELSE M_TrashedFile_delete(c, its, e)

\* TrashManager.empty()
RECURSIVE M_emptyLoop(_, _, _)
M_emptyLoop(c, its, rest) ==
    IF rest = <<>> THEN Outcome(c, <<>>, "void", 0)
    ELSE LET del == M_delete(c, its, Head(rest))
         IN M_emptyLoop([c EXCEPT !.fs = del.fs, !.log = del.log], its, Tail(rest))

M_empty(c, its) == M_emptyLoop(c, its, its)

\* items.filter(i => i !== item)
M_without(its, item) == SelectSeq(its, LAMBDA i : i # item)

\* the test `item.mtime < cutoff` of purgeOlderThan
M_isOld(item, cutoff) == M_mtime(item) < cutoff

\* TrashManager.purgeOlderThan(days): the loop over a copy of the list
RECURSIVE M_purgeLoop(_, _, _, _, _)
M_purgeLoop(c, its, copy, cutoff, count) ==
    IF copy = <<>> THEN Outcome(c, its, "count", count)
    ELSE LET item == Head(copy)
             del == M_delete(c, its, item)
         IN IF M_isOld(item, cutoff)
            THEN M_purgeLoop([c EXCEPT !.fs = del.fs, !.log = del.log],
                             M_without(its, item), Tail(copy), cutoff, count + 1)
            ELSE M_purgeLoop(c, its, Tail(copy), cutoff, count)

M_purgeOlderThan(c, its, days) ==
    M_purgeLoop(c, its, its, Now - (days * 24 * 60 * 60 * 1000), 0)

\* the same comparator without the negation for 'desc'
M_compare_ascending(a, b, sortBy, order) ==
    IF sortBy = "name" THEN localeCompare(a.name, b.name)
    ELSE IF sortBy = "size" THEN M_size(a) - M_size(b)
    ELSE M_mtime(a) - M_mtime(b)

\* the comparator of TrashManager.sort
M_compare(a, b, sortBy, order) ==
    LET comparison == IF sortBy = "name" THEN localeCompare(a.name, b.name)
                      ELSE IF sortBy = "size" THEN M_size(a) - M_size(b)
                      ELSE M_mtime(a) - M_mtime(b)
    IN IF order = "desc" THEN -comparison ELSE comparison

\* Array.prototype.sort with that comparator: a stable sort
RECURSIVE M_insert(_, _, _, _)
M_insert(sorted, x, sortBy, order) ==
    IF sorted = <<>> THEN <<x>>
    ELSE IF M_compare(x, sorted[Len(sorted)], sortBy, order) >= 0 THEN Append(sorted, x)
    ELSE Append(M_insert(ButLast(sorted), x, sortBy, order), sorted[Len(sorted)])

\* TrashManager.sort(sortBy, order): this.items sorted in place
RECURSIVE M_sort(_, _, _)
M_sort(its, sortBy, order) ==
    IF its = <<>> THEN <<>>
    ELSE M_insert(M_sort(ButLast(its), sortBy, order), its[Len(its)], sortBy, order)

\* TrashManager.filter(query): the list it returns, and whether that list is
\* this.items itself
M_filter(its, query) ==
    IF query = <<>> \/ Trim(query) = <<>> THEN [list |-> its, shared |-> TRUE]
    ELSE [list |-> SelectSeq(its, LAMBDA item :
                       Includes(ToLowerCase(item.name), ToLowerCase(query))),
          shared |-> FALSE]

(***************************************************************************)
(* Initial storage                                                         *)
(***************************************************************************)
\* file contents: the text "hi", and the first bytes of a JPEG image
TextContent == <<104, 105>>
BinaryContent == <<255, 216>>
Contents == {TextContent, BinaryContent}

\* mtimes of trashed files: unknown, exactly MaxDays days ago, one
\* millisecond less than that
FileMTimes == {0, Now - MaxDays * MsPerDay, Now - MaxDays * MsPerDay + 1}
\* mtimes of the trashed folder: older than every threshold, or recent
OldOrYoung == {Now - (MaxDays + 1) * MsPerDay, Now - 1}
\* mtimes of the file in it: exactly MaxDays days ago, or recent
AgedOrYoung == {Now - MaxDays * MsPerDay, Now - 1}

\* the function with the given set of <<path, node>> pairs as its graph
Storage(pairs) ==
    [p \in { pr[1] : pr \in pairs } |-> (CHOOSE pr \in pairs : pr[1] = p)[2]]

\* the storage built from the choices: the trashed file a (absent when
\* contentA is <<>>), the trashed file c..d (absent when mtimeCD < 0), the
\* trashed folder n ("none", "empty" or "full" with the file n/t), and what
\* the vault holds at the places they came from
StorageOf(trashDir, contentA, mtimeA, mtimeCD, dirN, mtimeN, mtimeT, vaultA, vaultN) ==
    Storage(
        (IF trashDir \/ contentA # <<>> \/ mtimeCD >= 0 \/ dirN # "none"
            THEN {<<TRASH_FOLDER, DirNode(Now - 1)>>} ELSE {})
        \cup (IF contentA # <<>> THEN {<<InTrash(VaultA), FileNode(contentA, mtimeA)>>} ELSE {})
        \cup (IF mtimeCD >= 0 THEN {<<InTrash(VaultCD), FileNode(<<100>>, mtimeCD)>>} ELSE {})
        \cup (IF dirN # "none" THEN {<<InTrash(VaultN), DirNode(mtimeN)>>} ELSE {})
        \cup (IF dirN = "full"
                THEN {<<InTrash(VaultNT), FileNode(<<116, 116, 116>>, mtimeT)>>} ELSE {})
        \cup (IF vaultA THEN {<<VaultA, FileNode(<<65>>, Now - 1)>>} ELSE {})
        \cup (IF vaultN # "none" THEN {<<VaultN, DirNode(Now - 1)>>} ELSE {})
        \cup (IF vaultN = "full" THEN {<<VaultNT, FileNode(<<84>>, Now - 1)>>} ELSE {}) )

\* storages in which restore destinations may be taken and content may be
\* binary; every mtime is recent
RestoreStorages ==
    { StorageOf(trashDir, contentA, Now - 1, -1, dirN, Now - 1, Now - 1, vaultA, vaultN) :
        trashDir \in BOOLEAN, contentA \in Contents \cup {<<>>},
        dirN \in {"none", "empty", "full"},
        vaultA \in BOOLEAN, vaultN \in {"none", "empty", "full"} }

\* storages in which the trashed items have the ages purgeOlderThan tells
\* apart; the vault is empty
PurgeStorages ==
    { StorageOf(FALSE, contentA, mtimeA, mtimeCD, dirN, mtimeN, mtimeT, FALSE, "none") :
        contentA \in {TextContent, <<>>}, mtimeA \in FileMTimes,
        mtimeCD \in {-1, 0, Now - MaxDays * MsPerDay + 1},
        dirN \in {"none", "empty", "full"},
        mtimeN \in OldOrYoung, mtimeT \in AgedOrYoung }

\* storages with the files A and B beside a and a second file n/B beside
\* n/t, so that a level holds names in both orders and names that differ in
\* case only, and a folder holds an old and a young child; when `deep`, the folder n also holds the folder n/n with
\* the old file n/n/t
TreeStorages ==
    { StorageOf(FALSE, TextContent, Now - 1, -1, "full", mtimeN, mtimeT, FALSE, "none")
      @@ Storage({ <<InTrash(VaultB), FileNode(<<66>>, Now - 1)>>,
                   <<InTrash(VaultUpperA), FileNode(<<65, 65, 65, 65, 65>>, Now - 2)>>,
                   <<InTrash(VaultNB), FileNode(<<66, 66>>, mtimeNB)>> })
      @@ (IF deep
          THEN Storage({ <<InTrash(VaultNN), DirNode(Now - 1)>>,
                         <<InTrash(VaultNNT),
                           FileNode(<<116, 116, 116, 116>>, Now - (MaxDays + 1) * MsPerDay)>> })
          ELSE Storage({})) :
        mtimeN \in OldOrYoung, mtimeT \in AgedOrYoung, mtimeNB \in OldOrYoung,
        deep \in BOOLEAN }

InitialStorages == RestoreStorages \cup PurgeStorages

\* the faults a storage call can be hit by: none, or the k-th call throws.
\* `calls` is the number of calls the operation issues when none throws.
Fault(k) == [k |-> k, mode |-> "once"]

Faults(calls) == { Fault(k) : k \in 0..(IF calls < MaxFault THEN calls ELSE MaxFault) }

\* the entries of the tree at every depth
RECURSIVE AllEntries(_)
AllEntries(its) ==
    UNION { {its[i]} \cup AllEntries(its[i].children) : i \in 1..Len(its) }

\* `last` is the operation that ran last: its name, the entry it ran on, the
\* threshold a purge was given, the tree it started from, how it ended and
\* the adapter calls it issued
NoEntry == [kind |-> "none", path |-> <<>>, children |-> <<>>]

Done(op, e, days, before, out) ==
    [op |-> op, entry |-> e, days |-> days, before |-> before, ret |-> out.ret,
     count |-> out.count, log |-> out.log]

\* no operation has run since the caller took the last result
Idle == [op |-> "none", entry |-> NoEntry, days |-> 0, before |-> <<>>, ret |-> "void",
         count |-> 0, log |-> <<>>]

\* `view` is what the list view holds while it renders: the sequence it got
\* from the manager (filter) or built (renderFileList), whether that
\* sequence is the very array the manager keeps as its list, and the search
\* query and sort settings it was made with.  The sequence is a local of the
\* render pass and is dropped when the pass ends.
NoView == [list |-> <<>>, shared |-> FALSE, query |-> <<>>, sortBy |-> "none",
           sortOrder |-> "none"]

\* `plugin` is the plugin object and what it shows: its settings, how far
\* onload() has come and how many times it has called purgeOlderThan, the
\* confirmation dialog that is open, and what the last handler did on the
\* user's gesture.  The manager alone runs without a plugin.
NoModal == [open |-> FALSE, action |-> "none", entry |-> NoEntry, origin |-> "none"]

NoPlugin == [settings |-> [showConfirmations |-> TRUE, autoPurgeEnabled |-> FALSE,
                           autoPurgeDays |-> 1],
             phase |-> "none", purges |-> 0, viewOpen |-> FALSE, modal |-> NoModal,
             gesture |-> "none"]

Init ==
    /\ variant \in {"bundle", "modular"}
    /\ fs \in InitialStorages
    /\ items = <<>>
    /\ last = Idle
    /\ view = NoView
    /\ tasks = <<>>
    /\ plugin = NoPlugin

\* the adapter lists in this order when the operation lists nothing
AnyOrder == "asc"

\* one operation at a time runs to its end with outcome `out`
Becomes(op, e, days, out) ==
    /\ last = Idle
    /\ fs' = out.fs
    /\ items' = out.items
    /\ last' = Done(op, e, days, items, out)
    /\ UNCHANGED <<variant, view, tasks, plugin>>

refresh(c, its) == IF variant = "bundle" THEN B_refresh(c, its) ELSE M_refresh(c, its)
restore(c, its, e) == IF variant = "bundle" THEN B_restore(c, its, e) ELSE M_restore(c, its, e)
delete(c, its, e) == IF variant = "bundle" THEN B_delete(c, its, e) ELSE M_delete(c, its, e)
empty(c, its) == IF variant = "bundle" THEN B_empty(c, its) ELSE M_empty(c, its)
purgeOlderThan(c, its, days) ==
    IF variant = "bundle" THEN B_purgeOlderThan(c, its, days) ELSE M_purgeOlderThan(c, its, days)

\* TrashManager.refresh()
Refresh ==
    \E order \in ListOrders :
      \E flt \in Faults(Len(refresh(Ctx(fs, NoFault, order), items).log)) :
        Becomes("refresh", NoEntry, 0, refresh(Ctx(fs, flt, order), items))

\* restore() of an entry of the tree
Restore ==
    \E e \in AllEntries(items) :
      \E flt \in Faults(Len(restore(Ctx(fs, NoFault, AnyOrder), items, e).log)) :
        Becomes("restore", e, 0, restore(Ctx(fs, flt, AnyOrder), items, e))

\* delete() of an entry of the tree
Delete ==
    \E e \in AllEntries(items) :
      \E flt \in Faults(Len(delete(Ctx(fs, NoFault, AnyOrder), items, e).log)) :
        Becomes("delete", e, 0, delete(Ctx(fs, flt, AnyOrder), items, e))

\* TrashManager.empty()
Empty ==
    \E flt \in Faults(Len(empty(Ctx(fs, NoFault, AnyOrder), items).log)) :
        Becomes("empty", NoEntry, 0, empty(Ctx(fs, flt, AnyOrder), items))

\* TrashManager.purgeOlderThan(days)
Purge ==
    \E days \in 1..MaxDays :
      \E flt \in Faults(Len(purgeOlderThan(Ctx(fs, NoFault, AnyOrder), items, days).log)) :
        Becomes("purge", NoEntry, days, purgeOlderThan(Ctx(fs, flt, AnyOrder), items, days))

\* the caller takes the result of the operation that ran
Return ==
    /\ last # Idle
    /\ last.ret # "never"
    /\ last' = Idle
    /\ view' = NoView
    /\ plugin' = [plugin EXCEPT !.gesture = "none"]
    /\ UNCHANGED <<variant, fs, items, tasks>>

Next ==
    \/ Refresh
    \/ Restore
    \/ Delete
    \/ Empty
    \/ Purge
    \/ Return

Spec == Init /\ [][Next]_vars

\* The same plugins over a trash of two levels with two names on each: the
\* manager refreshes and purges, and the list view reads the tree.
TreeInit ==
    /\ variant \in {"bundle", "modular"}
    /\ fs \in TreeStorages
    /\ items = <<>>
    /\ last = Idle
    /\ view = NoView
    /\ tasks = <<>>
    /\ plugin = NoPlugin

\* the search queries and the sort settings the view passes
Queries == {<<>>, <<" ">>, <<"b">>, <<"A">>}
SortKeys == {"name", "date", "size"}
SortOrders == {"asc", "desc"}

\* a call that reads the tree, touches no storage and returns
Read(op) ==
    Done(op, NoEntry, 0, items, [ret |-> "void", count |-> 0, log |-> <<>>])

\* TrashManager.filter(query) of the modular plugin, called by the view,
\* which keeps the list it got
Filter ==
    \E query \in Queries :
        /\ variant = "modular"
        /\ last = Idle
        /\ last' = Read("filter")
        /\ view' = [view EXCEPT !.list = M_filter(items, query).list,
                                !.shared = M_filter(items, query).shared,
                                !.query = query]
        /\ UNCHANGED <<variant, fs, items, tasks, plugin>>

\* TrashManager.sort(sortBy, order) of the modular plugin, called on its own
\* or, as render() does, right after filter: the manager's array is sorted
\* in place, and with it the view's list when that is the same array
Sort ==
    \E sortBy \in SortKeys, order \in SortOrders :
        /\ variant = "modular"
        /\ last = Idle \/ last.op = "filter"
        /\ last' = Read("sort")
        /\ items' = M_sort(items, sortBy, order)
        /\ view' = [view EXCEPT !.list = IF view.shared THEN items' ELSE @,
                                !.sortBy = sortBy, !.sortOrder = order]
        /\ UNCHANGED <<variant, fs, tasks, plugin>>

\* RecycleBinView.renderFileList of the bundled plugin
Render ==
    \E query \in Queries, sortBy \in SortKeys, order \in SortOrders :
        /\ variant = "bundle"
        /\ last = Idle
        /\ last' = Read("render")
        /\ view' = [list |-> B_renderFileList(items, query, sortBy, order),
                    shared |-> FALSE, query |-> query, sortBy |-> sortBy,
                    sortOrder |-> order]
        /\ UNCHANGED <<variant, fs, items, tasks, plugin>>

TreeNext ==
    \/ Refresh
    \/ Purge
    \/ Filter
    \/ Sort
    \/ Render
    \/ Return

TreeSpec == TreeInit /\ [][TreeNext]_vars

\* The same trash behind an adapter whose listings hold the trash root.
\* TrashManager.refresh() with that adapter, any one call throwing or none
RefreshSelfListed ==
    \E flt \in { Fault(k) : k \in 0..MaxFault } :
        Becomes("refresh", NoEntry, 0, refresh(Ctx(fs, flt, SelfListing), items))

CycleNext ==
    \/ Refresh
    \/ RefreshSelfListed
    \/ Return

CycleSpec == TreeInit /\ [][CycleNext]_vars

(***************************************************************************)
(* Calls that overlap.  `tasks` holds the asynchronous calls of the        *)
(* manager that have started and have not settled, each suspended at an    *)
(* await: what it is (op), where it resumes (pc), the entries it still has *)
(* to handle (todo), the threshold and the count of a purge, whether the   *)
(* entries it holds are still those of the manager's tree (fresh), and the *)
(* adapter calls it has issued (log).  A call reads storage when it        *)
(* resumes.                                                                *)
(***************************************************************************)
MaxTasks == 2

Task(op, pc, todo, days) ==
    [op |-> op, pc |-> pc, todo |-> todo, days |-> days, count |-> 0, fresh |-> TRUE,
     log |-> <<>>]

Without(ts, i) == SubSeq(ts, 1, i - 1) \o SubSeq(ts, i + 1, Len(ts))

\* the call settles: it leaves `tasks` and `last` tells how it ended
Settled(t, ret) ==
    Done(t.op, NoEntry, t.days, <<>>, [ret |-> ret, count |-> t.count, log |-> t.log])

\* refresh() is called.  The modular plugin clears this.items before its
\* first await (adapter.exists); the bundled plugin awaits at once.
StartRefresh ==
    /\ Len(tasks) < MaxTasks
    /\ tasks' = Append(tasks, Task("refresh", "exists", <<>>, 0))
    /\ items' = IF variant = "modular" THEN <<>> ELSE items
    /\ UNCHANGED <<variant, fs, last, view, plugin>>

\* a refresh() of the modular plugin resumes: after exists it returns or
\* lists the root; after the listing it has the entries to push, each push
\* behind an await of its own (stat of a file, scanFolder of a folder), and
\* each push is onto the array this.items names at that moment
M_ResumeRefresh(i) ==
    \E ex \in {AdapterExists(Ctx(fs, NoFault, AnyOrder), TRASH_FOLDER)} :
    \E sc \in {M_scanFolder(Ctx(fs, NoFault, AnyOrder), TRASH_FOLDER)} :
    LET t == tasks[i]
        ends == \/ t.pc = "exists" /\ ~ex.v
                \/ t.pc = "list" /\ sc.items = <<>>
                \/ t.pc = "push" /\ Len(t.todo) = 1
        next == IF t.pc = "exists" THEN [t EXCEPT !.pc = "list", !.log = ex.log]
                ELSE IF t.pc = "list"
                     THEN [t EXCEPT !.pc = "push", !.todo = sc.items, !.log = @ \o sc.c.log]
                ELSE [t EXCEPT !.todo = Tail(@)]
    IN /\ items' = IF t.pc = "push" THEN Append(items, Head(t.todo)) ELSE items
       /\ tasks' = IF ends THEN Without(tasks, i) ELSE [tasks EXCEPT ![i] = next]
       /\ last' = IF ends THEN Settled(next, "void") ELSE last
       /\ UNCHANGED <<variant, fs, view, plugin>>

\* a refresh() of the bundled plugin resumes: after exists it empties the
\* root's children or goes on to list and build; when the build is done it
\* assigns the new entries to the root's children.  The entries a purge in
\* flight has selected are then no longer those of the tree.
B_ResumeRefresh(i) ==
    \E ex \in {AdapterExists(Ctx(fs, NoFault, AnyOrder), TRASH_FOLDER)} :
    \E out \in {B_refresh(Ctx(fs, NoFault, AnyOrder), items)} :
    LET t == tasks[i]
        ends == t.pc = "build" \/ ~ex.v
        rest == Without(tasks, i)
    IN /\ items' = IF ends THEN out.items ELSE items
       /\ tasks' = IF ends THEN [j \in 1..Len(rest) |-> [rest[j] EXCEPT !.fresh = (rest[j].op # "purge")]]
                    ELSE [tasks EXCEPT ![i] = [t EXCEPT !.pc = "build"]]
       /\ last' = IF ends THEN Settled([t EXCEPT !.log = out.log], "void") ELSE last
       /\ UNCHANGED <<variant, fs, view, plugin>>

ResumeRefresh ==
    \E i \in 1..Len(tasks) :
        /\ tasks[i].op = "refresh"
        /\ IF variant = "modular" THEN M_ResumeRefresh(i) ELSE B_ResumeRefresh(i)

\* purgeOlderThan(days) of the bundled plugin is called: it selects the
\* items to purge and awaits the delete() of the first, or returns 0
StartPurge ==
    \E days \in 1..MaxDays :
        LET t == Task("purge", "delete", B_findItemsOlderThan(items, days), days)
        IN /\ variant = "bundle"
           /\ Len(tasks) < MaxTasks
           /\ tasks' = IF t.todo = <<>> THEN tasks ELSE Append(tasks, t)
           /\ last' = IF t.todo = <<>> THEN Settled(t, "count") ELSE last
           /\ UNCHANGED <<variant, fs, items, view, plugin>>

\* the delete() a purge awaits settles: storage loses the item, and
\* removeChild takes the item out of its parent's children, which are part
\* of the manager's tree only if no refresh has replaced the tree since
ResumePurge ==
    \E i \in { j \in 1..Len(tasks) : tasks[j].op = "purge" } :
      \E out \in {B_delete(Ctx(fs, NoFault, AnyOrder), items, Head(tasks[i].todo))} :
        LET t == tasks[i]
            next == [t EXCEPT !.todo = Tail(@), !.log = @ \o out.log,
                              !.count = IF out.ret = "threw" THEN @ ELSE @ + 1]
            ends == out.ret = "threw" \/ next.todo = <<>>
        IN /\ t.op = "purge"
           /\ fs' = out.fs
           /\ items' = IF t.fresh THEN out.items ELSE items
           /\ tasks' = IF ends THEN Without(tasks, i) ELSE [tasks EXCEPT ![i] = next]
           /\ last' = IF ends
                      THEN Settled(next, IF out.ret = "threw" THEN "threw" ELSE "count")
                      ELSE last
           /\ UNCHANGED <<variant, view, plugin>>

RaceNext ==
    \/ StartRefresh
    \/ ResumeRefresh
    \/ StartPurge
    \/ ResumePurge

RaceSpec == TreeInit /\ [][RaceNext]_vars

\* The trash of three levels with a storage that fails no call by itself:
\* the tree is refreshed and its entries are restored, those beneath a
\* folder too.
RefreshUnfailing ==
    \E order \in ListOrders :
        Becomes("refresh", NoEntry, 0, refresh(Ctx(fs, NoFault, order), items))

RestoreUnfailing ==
    \E e \in AllEntries(items) :
        Becomes("restore", e, 0, restore(Ctx(fs, NoFault, AnyOrder), items, e))

DeepNext ==
    \/ RefreshUnfailing
    \/ RestoreUnfailing
    \/ Return

DeepSpec == TreeInit /\ [][DeepNext]_vars

(***************************************************************************)
(* Vocabulary of the properties                                            *)
(***************************************************************************)
\* the restore destination of an entry
OriginalPathOf(e) == IF variant = "bundle" THEN B_originalPath(e) ELSE e.originalPath

\* an original path that must never be restored to: it contains '..',
\* starts with '/' or '\', or contains '://'
UnsafePath(path) ==
    \/ \E i \in 1..(Len(path) - 1) : path[i] = "." /\ path[i + 1] = "."
    \/ Len(path) > 0 /\ path[1] \in {"/", "\\"}
    \/ \E i \in 1..(Len(path) - 2) : path[i] = ":" /\ path[i + 1] = "/" /\ path[i + 2] = "/"

MutatingCalls == {"mkdir", "write", "rename", "remove", "rmdir"}

\* the calls of a log that change storage, and whether some call threw
Mutations(log) == { i \in 1..Len(log) : log[i][1] \in MutatingCalls }
SomeCallThrew(log) == \E i \in 1..Len(log) : ~log[i][3]

\* storage f and storage g hold the same at p and beneath it
SameWithin(f, g, p) ==
    /\ { q \in DOMAIN f : Within(q, p) } = { q \in DOMAIN g : Within(q, p) }
    /\ \A q \in DOMAIN f : Within(q, p) => f[q] = g[q]

\* C1 (path safety): restore() of a file or folder entry whose original path
\* contains '..', starts with '/' or '\', or contains '://' returns false,
\* issues no mutating storage call and leaves storage unchanged, in both
\* plugins.
C1_PathSafety ==
    [][ (last'.op = "restore" /\ UnsafePath(OriginalPathOf(last'.entry)))
        => /\ last'.ret = "false"
           /\ Mutations(last'.log) = {}
           /\ fs' = fs ]_vars

\* C2 (no overwrite): when storage holds something at the entry's original
\* path and no storage call of the restore() fails, restore() returns false,
\* the trashed source is as it was, and the destination with everything
\* beneath it is as it was.
C2_NoOverwrite ==
    [][ ( /\ last'.op = "restore"
          /\ OriginalPathOf(last'.entry) \in DOMAIN fs
          /\ ~SomeCallThrew(last'.log) )
        => /\ last'.ret = "false"
           /\ SameWithin(fs, fs', last'.entry.path)
           /\ SameWithin(fs, fs', OriginalPathOf(last'.entry)) ]_vars

\* countItems(items): the nodes of a tree
RECURSIVE countItems(_)
countItems(its) ==
    IF its = <<>> THEN 0
    ELSE 1 + countItems(Head(its).children) + countItems(Tail(its))

\* restore() or delete() ended and reported no failure
Succeeded(l) == l.op \in {"restore", "delete"} /\ l.ret \in {"true", "void"}

\* C3 (detach on success): once restore() or delete() of an entry has
\* reported success, and before any refresh, the entry is in no children
\* list of the tree and the item count is lower by the nodes of its subtree.
C3_DetachOnSuccess ==
    Succeeded(last)
    => /\ last.entry \notin AllEntries(items)
       /\ countItems(items) = countItems(last.before) - countItems(<<last.entry>>)

\* C4 (restore moves content): when restore() of a file entry returns true,
\* storage holds at the original path exactly the content that was at the
\* trash path and nothing is left at the trash path; when it returns false
\* for an unsafe path or a taken destination, the trash path is as it was.
C4_RestoreMovesContent ==
    [][ (last'.op = "restore" /\ last'.entry.kind = "file")
        => LET src == last'.entry.path
               dst == OriginalPathOf(last'.entry)
           IN /\ last'.ret = "true"
                 => /\ IsFile(fs, src) /\ IsFile(fs', dst)
                    /\ fs'[dst].content = fs[src].content
                    /\ src \notin DOMAIN fs'
              /\ (last'.ret = "false" /\ (UnsafePath(dst) \/ dst \in DOMAIN fs))
                 => SameWithin(fs, fs', src) ]_vars

\* C5 (storage errors do not escape): when a storage call fails during
\* restore() or delete() of an entry, the operation ends by returning
\* false; it never throws to its caller.
C5_ErrorsDoNotEscape ==
    (last.op \in {"restore", "delete"} /\ SomeCallThrew(last.log))
    => last.ret = "false"

\* C6 (idempotent empty): empty() on a tree without top-level entries
\* issues no storage call at all, neither a query nor a mutation, and leaves
\* the tree empty.
C6_IdempotentEmpty ==
    (last.op = "empty" /\ last.before = <<>>)
    => (last.log = <<>> /\ items = <<>>)

\* the calls of a log that delete from storage
Deletions(log) == { i \in 1..Len(log) : log[i][1] \in {"remove", "rmdir"} }

\* C7 (best-effort empty): empty() always ends normally with the tree empty,
\* also when a storage deletion fails, and every top-level entry gets its
\* deletion attempted, by a call on it or on a directory that holds it.
C7_BestEffortEmpty ==
    last.op = "empty"
    => /\ last.ret = "void"
       /\ items = <<>>
       /\ \A i \in 1..Len(last.before) :
            \E k \in Deletions(last.log) : Within(last.before[i].path, last.log[k][2])

\* the mtime of an entry, 0 when it is absent
MtimeOf(e) == IF variant = "bundle" THEN e.mtime ELSE M_mtime(e)

\* the age in whole days that the specification gives an mtime: absent is 0
AgeInDays(mtime) == IF mtime = 0 THEN 0 ELSE (Now - mtime) \div MsPerDay

\* a tree of files only, each with a known mtime
FilesOfKnownAge(its) ==
    \A i \in 1..Len(its) : its[i].kind = "file" /\ MtimeOf(its[i]) # 0

\* C8 (purge threshold): on a tree of files only, each of known mtime, when
\* no storage call fails, purgeOlderThan(d) deletes exactly the files of age
\* floor((now - mtime) / msPerDay) >= d and returns their number; a file of
\* age exactly d whole days is purged, one of age d-1 is kept.
C8_PurgeThreshold ==
    (last.op = "purge" /\ FilesOfKnownAge(last.before) /\ ~SomeCallThrew(last.log))
    => LET old == { i \in 1..Len(last.before) :
                      AgeInDays(MtimeOf(last.before[i])) >= last.days }
       IN /\ { last.log[k][2] : k \in Deletions(last.log) }
               = { last.before[i].path : i \in old }
          /\ \A i \in old : last.before[i].path \notin DOMAIN fs
          /\ last.ret = "count"
          /\ last.count = Cardinality(old)

\* C9 (unknown age is never purged): for every threshold d >= 1,
\* purgeOlderThan(d) deletes no entry whose mtime is absent; the entry is
\* in storage and in the tree afterwards as it was before.
C9_UnknownAgeKept ==
    [][ last'.op = "purge"
        => \A e \in AllEntries(items) :
             MtimeOf(e) = 0
             => /\ e.path \in DOMAIN fs => e.path \in DOMAIN fs'
                /\ e \in AllEntries(items') ]_vars

\* the top-level folders of age >= days that purgeOlderThan(days) selects
FoundFolders(its, days) ==
    { i \in 1..Len(its) :
        /\ its[i].kind = "folder"
        /\ AgeInDays(MtimeOf(its[i])) >= days
        /\ IF variant = "bundle"
           THEN \E k \in 1..Len(B_findItemsOlderThan(its, days)) :
                    B_findItemsOlderThan(its, days)[k] = its[i]
           ELSE M_isOld(its[i], Now - days * MsPerDay) }

\* C10 (folder purged as a unit): for a folder of age >= d that
\* purgeOlderThan(d) finds, no delete is issued for anything beneath it and
\* at most one for the folder itself; when the purge returns its count,
\* exactly one delete was issued for the folder and the count is the number
\* of deletes issued, so the folder adds 1 and its descendants add nothing.
C10_FolderPurgedAsUnit ==
    last.op = "purge"
    => \A i \in FoundFolders(last.before, last.days) :
         LET f == last.before[i]
             own == { k \in Deletions(last.log) : last.log[k][2] = f.path }
         IN /\ \A k \in Deletions(last.log) : ~Beneath(last.log[k][2], f.path)
            /\ Cardinality(own) <= 1
            /\ last.ret = "count"
               => /\ Cardinality(own) = 1
                  /\ last.count = Cardinality(Deletions(last.log))

\* a purge returned after deleting, with one rmdir, a folder that held a child
C10_Witness ==
    /\ last.op = "purge"
    /\ last.ret = "count"
    /\ \E i \in FoundFolders(last.before, last.days) :
         /\ last.before[i].children # <<>>
         /\ \E k \in Deletions(last.log) :
              last.log[k] = <<"rmdir", last.before[i].path, TRUE>>
         /\ last.before[i].path \notin DOMAIN fs

\* the entries of age >= days, the age known
OldEntries(its, days) ==
    { e \in AllEntries(its) : MtimeOf(e) # 0 /\ AgeInDays(MtimeOf(e)) >= days }

\* C11 (purge descends into young folders): after purgeOlderThan(d), when no
\* storage call failed, no entry of the tree at any depth whose age is
\* known and >= d is left in storage: it was deleted itself or with a
\* folder above it.
C11_PurgeDescends ==
    (last.op = "purge" /\ ~SomeCallThrew(last.log))
    => \A e \in OldEntries(last.before, last.days) : e.path \notin DOMAIN fs

\* get size() of an entry
SizeOf(e) == IF variant = "bundle" THEN B_size(e) ELSE M_size(e)

\* the children sequence `its` mirrors directory `dir` of storage f: one
\* entry per file and per directory that lies directly in dir, a file entry
\* with the size of the file, a folder entry with children that mirror it
RECURSIVE Mirrors(_, _, _)
Mirrors(its, f, dir) ==
    LET held == { q \in DOMAIN f : ParentOf(q) = dir }
    IN /\ { its[i].path : i \in 1..Len(its) } = held
       /\ Len(its) = Cardinality(held)
       /\ \A i \in 1..Len(its) :
            IF its[i].kind = "file"
            THEN /\ IsFile(f, its[i].path)
                 /\ SizeOf(its[i]) = Len(f[its[i].path].content)
                 /\ its[i].children = <<>>
            ELSE /\ its[i].kind = "folder"
                 /\ IsDir(f, its[i].path)
                 /\ Mirrors(its[i].children, f, its[i].path)

\* C12 (refresh mirrors storage): after a refresh() in which no storage call
\* failed, whatever the tree held before, the tree has exactly one entry per
\* file and per directory under the trash root, each under the entry of the
\* directory that holds it, a file with its stat size; the tree is empty
\* when storage has no trash root.
C12_RefreshMirrorsStorage ==
    (last.op = "refresh" /\ ~SomeCallThrew(last.log))
    => /\ last.ret = "void"
       /\ IF TRASH_FOLDER \in DOMAIN fs
          THEN Mirrors(items, fs, TRASH_FOLDER)
          ELSE items = <<>>

\* a refresh replaced a tree that no longer matched storage by one with a
\* folder and the file in it
C12_Witness ==
    /\ last.op = "refresh" /\ ~SomeCallThrew(last.log)
    /\ last.before # <<>>
    /\ items # last.before
    /\ \E i \in 1..Len(items) : items[i].kind = "folder" /\ items[i].children # <<>>

\* at every level of the tree the folders precede the files, and the names
\* of each group ascend in the case-insensitive order
RECURSIVE FoldersFirstByName(_)
FoldersFirstByName(its) ==
    /\ \A i, j \in 1..Len(its) :
         i < j => /\ its[i].kind = "file" => its[j].kind = "file"
                  /\ its[i].kind = its[j].kind
                     => CollatorCompare(its[i].name, its[j].name) <= 0
    /\ \A i \in 1..Len(its) : FoldersFirstByName(its[i].children)

\* C13 (refresh ordering): in the tree that refresh() builds, at every
\* level all folder entries precede all file entries and each group is in
\* ascending case-insensitive name order, in whatever order storage listed
\* the directory.
C13_RefreshOrdering ==
    (last.op = "refresh" /\ last.ret = "void") => FoldersFirstByName(items)

\* C14 (fail-safe refresh): when a storage call (exists, list or stat)
\* fails during refresh(), the error is caught, so refresh() returns
\* normally, and the tree is the tree it was before the call.
C14_FailSafeRefresh ==
    (last.op = "refresh" /\ SomeCallThrew(last.log))
    => (last.ret = "void" /\ items = last.before)

\* the file entries among the entries of a tree, and the sum of their sizes
FilesIn(its) == { e \in AllEntries(its) : e.kind = "file" }

RECURSIVE SumOfSizes(_)
SumOfSizes(S) ==
    IF S = {} THEN 0
    ELSE LET e == CHOOSE x \in S : TRUE
         IN SizeOf(e) + SumOfSizes(S \ {e})

RECURSIVE DerivedMtime(_)
DerivedMtime(e) ==
    IF e.kind = "file" THEN MtimeOf(e)
    ELSE IF e.children = <<>> THEN 0
    ELSE SetMax({ DerivedMtime(e.children[i]) : i \in 1..Len(e.children) })

\* C16 (folder mtime is derived): the mtime of every folder entry, which is
\* the mtime purgeOlderThan takes its age from, is the greatest mtime of its
\* children, derived in the same way for child folders, and absent when the
\* folder has no children; it is not the directory's own stat mtime.
C16_FolderMtimeDerived ==
    \A e \in AllEntries(items) : e.kind = "folder" => MtimeOf(e) = DerivedMtime(e)

\* two characters are the same letter, whatever their case
SameLetter(x, y) ==
    \/ x = y
    \/ {x, y} = {"a", "A"}
    \/ {x, y} = {"b", "B"}

\* the name contains the query as a substring when case is ignored; a query
\* that is empty or all blanks is contained in every name
ContainsIgnoringCase(name, query) ==
    \/ \A k \in 1..Len(query) : query[k] = " "
    \/ \E i \in 1..(Len(name) - Len(query) + 1) :
         \A k \in 1..Len(query) : SameLetter(name[i + k - 1], query[k])

\* C17 (filter): filter(query) returns exactly the entries of the manager's
\* list whose name contains the query, case ignored (all of them for an empty
\* or blank query), and does not change the tree; and the sequence it
\* returned is a sequence of its own, so that a sort() of the manager's list
\* that follows leaves the order of the returned sequence as it was.
C17_FilterReturnsOwnSequence ==
    [][ /\ last'.op = "filter"
           => /\ view'.list = SelectSeq(items, LAMBDA item :
                                  ContainsIgnoringCase(item.name, view'.query))
              /\ items' = items
        /\ (last.op = "filter" /\ last'.op = "sort") => view'.list = view.list ]_vars

\* the name contains the query as a substring, case ignored; every name
\* contains the empty query
HasSubstring(name, query) ==
    \E i \in 1..(Len(name) - Len(query) + 1) :
        \A k \in 1..Len(query) : SameLetter(name[i + k - 1], query[k])

\* the two sequences hold the same entries, each as often as the other
PermutationOf(a, b) ==
    /\ Len(a) = Len(b)
    /\ \A x \in {a[i] : i \in 1..Len(a)} \cup {b[i] : i \in 1..Len(b)} :
         Cardinality({i \in 1..Len(a) : a[i] = x}) = Cardinality({i \in 1..Len(b) : b[i] = x})

\* the sort key of two entries compared: names by their letters, case
\* ignored; dates by mtime, an absent one being 0; sizes as numbers
KeyCompare(a, b, by) ==
    IF by = "name" THEN CollatorCompare(a.name, b.name)
    ELSE IF by = "date" THEN SeqCmp(<<MtimeOf(a)>>, <<MtimeOf(b)>>)
    ELSE SeqCmp(<<SizeOf(a)>>, <<SizeOf(b)>>)

\* the list is in the order of the key: non-decreasing for 'asc',
\* non-increasing for 'desc'
OrderedBy(list, by, order) ==
    \A i \in 1..(Len(list) - 1) :
        IF order = "asc" THEN KeyCompare(list[i], list[i + 1], by) <= 0
        ELSE KeyCompare(list[i], list[i + 1], by) >= 0

\* names that differ only in case stand next to each other, before every
\* name that is greater when case is ignored
CaseGrouped(list) ==
    \A i \in 1..Len(list), j \in 1..Len(list) :
        /\ (i < j /\ CollatorCompare(list[i].name, list[j].name) = 0)
           => \A k \in i..j : CollatorCompare(list[i].name, list[k].name) = 0
        /\ CollatorCompare(list[i].name, list[j].name) < 0 => i < j

\* the list a sort that just ran has produced, and the list it was given:
\* the manager's list for sort(by, order) of the modular plugin; for the
\* bundled plugin's sortItems the flat list of the entries the query selects
Sorted == IF last.op = "sort" THEN items ELSE view.list

Unsorted ==
    IF last.op = "sort" THEN last.before
    ELSE SelectSeq(B_getFlatList(items),
                   LAMBDA item : HasSubstring(item.name, view.query))

\* C18 (sort comparator): after a sort by a key in an order the list is a
\* permutation of the list before, in non-decreasing order of the key for
\* 'asc' and in non-increasing order for 'desc' (names compared with case
\* ignored, dates by mtime with an absent one as 0, sizes as numbers); after
\* a sort by name ascending the names that differ only in case are adjacent
\* and precede every name that is greater when case is ignored.
C18_SortOrdersByKey ==
    last.op \in {"sort", "render"}
    => /\ PermutationOf(Sorted, Unsorted)
       /\ OrderedBy(Sorted, view.sortBy, view.sortOrder)
       /\ (view.sortBy = "name" /\ view.sortOrder = "asc") => CaseGrouped(Sorted)

\* a list holding the names a and A and a greater one has been sorted by
\* name, ascending, and the sort has changed its order
C18_Witness ==
    /\ last.op \in {"sort", "render"}
    /\ view.sortBy = "name" /\ view.sortOrder = "asc"
    /\ Sorted # Unsorted
    /\ \E i, j, k \in 1..Len(Sorted) :
         /\ Sorted[i].name = <<"a">> /\ Sorted[j].name = <<"A">>
         /\ Sorted[k].name = <<"B">>

\* the sibling lists of the tree: the top level and every folder's children
SiblingLists(its) == {its} \cup { e.children : e \in AllEntries(its) }

\* flat is the depth-first pre-order of the tree: it holds every entry of the
\* tree exactly once, every folder stands immediately before the block of all
\* the entries beneath it, its first child first, and siblings keep the order
\* they have in the tree
IsPreOrder(flat, its) ==
    LET pos(e) == CHOOSE i \in 1..Len(flat) : flat[i] = e
    IN /\ {flat[i] : i \in 1..Len(flat)} = AllEntries(its)
       /\ Len(flat) = Cardinality(AllEntries(its))
       /\ \A i \in 1..Len(flat) :
            LET beneath == AllEntries(flat[i].children)
            IN /\ i + Cardinality(beneath) <= Len(flat)
               /\ {flat[k] : k \in (i + 1)..(i + Cardinality(beneath))} = beneath
               /\ beneath # {} => flat[i + 1] = flat[i].children[1]
       /\ \A sibs \in SiblingLists(its) :
            \A a \in 1..Len(sibs), b \in 1..Len(sibs) :
                a < b => pos(sibs[a]) < pos(sibs[b])

\* C19 (flatten pre-order): the flat list the view takes from getFlatList()
\* is the depth-first pre-order of the tree: every folder appears immediately
\* before the flattened sequence of its own children, which is complete
\* before the folder's next sibling appears; every entry of the tree appears
\* exactly once; and the tree is not modified.
C19_FlattenPreOrder ==
    [][ last'.op = "render"
        => /\ IsPreOrder(B_getFlatList(items), items)
           /\ items' = items ]_vars

\* the view has rendered a tree in which a folder with a next sibling holds
\* a folder that holds an entry
C19_Witness ==
    /\ last.op = "render"
    /\ \E i \in 1..(Len(items) - 1) :
         \E c \in 1..Len(items[i].children) :
            items[i].children[c].children # <<>>

\* C20 (aggregate counts agree): in every reachable state of the bundled
\* plugin's tree totalCount is the number of nodes of the tree, folders and
\* files alike, which is the length of getFlatList(); and isEmpty holds
\* exactly when totalCount is 0.
C20_CountsAgree ==
    variant = "bundle"
    => /\ B_totalCount(items) = Cardinality(AllEntries(items))
       /\ B_totalCount(items) = Len(B_getFlatList(items))
       /\ B_isEmpty(items) <=> B_totalCount(items) = 0

\* a refresh or a purge of the bundled plugin has left a tree with entries
\* on three levels
C20_Witness ==
    /\ variant = "bundle"
    /\ last.op \in {"refresh", "purge"}
    /\ \E i \in 1..Len(items) :
         \E c \in 1..Len(items[i].children) :
            items[i].children[c].children # <<>>

\* the folder objects of the bundled plugin's tree: the manager's root, whose
\* children are the tree, and every folder entry
FolderObjects(its) ==
    {[path |-> TRASH_FOLDER, children |-> its]}
    \cup { [path |-> e.path, children |-> e.children] :
             e \in { x \in AllEntries(its) : x.kind = "folder" } }

\* C21 (parent/child consistency): after any sequence of refresh, restore,
\* delete, empty and purgeOlderThan calls run one at a time, every entry
\* reachable from the manager's root has for its parent the one folder whose
\* children hold the entry, and it occurs in those children exactly once.
C21_ParentChildConsistency ==
    variant = "bundle"
    => \A e \in AllEntries(items) :
         LET holders == { f \in FolderObjects(items) :
                            \E i \in 1..Len(f.children) : f.children[i] = e }
         IN /\ Cardinality(holders) = 1
            /\ \A f \in holders :
                 /\ f.path = e.parent
                 /\ Cardinality({ i \in 1..Len(f.children) : f.children[i] = e }) = 1

\* an entry held by a folder beneath the root has been restored, deleted or
\* purged and the tree, changed by it, still holds entries
C21_Witness ==
    /\ variant = "bundle"
    /\ last.op \in {"restore", "delete", "purge"}
    /\ items # last.before
    /\ \E e \in AllEntries(last.before) :
         e.parent # TRASH_FOLDER /\ e \notin AllEntries(items)
    /\ items # <<>>

\* C22 (cycle prevention): even when the listing of a directory of the trash
\* holds the trash root itself among its folders, refresh() terminates and
\* places no entry for the trash root in any children sequence.
C22_CyclePrevention ==
    last.op = "refresh"
    => /\ last.ret # "never"
       /\ \A e \in AllEntries(items) : e.path # TRASH_FOLDER

\* C23 (unique paths under overlapping refreshes): in every state in which
\* no refresh() is in flight, no two entries of the manager's tree have the
\* same path, also after refresh() calls have overlapped at their awaits.
C23_UniquePaths ==
    (\A i \in 1..Len(tasks) : tasks[i].op # "refresh")
    => Len(B_flattenItems(items)) = Cardinality({ e.path : e \in AllEntries(items) })

\* C24 (restore creates the missing parent): restore() of a file or folder
\* entry that is in the trash, with a valid original path, whose destination
\* does not exist and whose destination's parent directory does not exist
\* either, creates the parent directory, moves the item and returns true.
C24_RestoreCreatesParent ==
    [][ LET e == last'.entry
            dst == OriginalPathOf(e)
        IN ( /\ last'.op = "restore"
             /\ e.path \in DOMAIN fs
             /\ ~UnsafePath(dst)
             /\ dst \notin DOMAIN fs
             /\ ParentPath(dst) # <<>> /\ ParentPath(dst) \notin DOMAIN fs )
           => /\ last'.ret = "true"
              /\ IsDir(fs', ParentPath(dst))
              /\ dst \in DOMAIN fs'
              /\ e.path \notin DOMAIN fs' ]_vars

\* the place in the vault a path of the trash was trashed from
VaultPathOf(q) == Drop(q, Len(TRASH_FOLDER) + 1)

\* C25 (folder restore loses no content): after restore() of a folder entry
\* has returned, the content of every file that was beneath the folder in
\* the trash is in storage, at the file's original path or still at its
\* trash path, even if restoring some descendant failed.
C25_FolderRestoreKeepsContent ==
    [][ ( /\ last'.op = "restore"
          /\ last'.entry.kind = "folder"
          /\ last'.ret \in {"true", "false"} )
        => \A q \in DOMAIN fs :
             (Beneath(q, last'.entry.path) /\ IsFile(fs, q))
             => \/ IsFile(fs', q) /\ fs'[q].content = fs[q].content
                \/ /\ IsFile(fs', VaultPathOf(q))
                   /\ fs'[VaultPathOf(q)].content = fs[q].content ]_vars

\* C26 (rendered list respects the selected sort): in render() of the
\* modular plugin, where filter() is called before sort(), the sequence of
\* items that is rendered is in the order of (sortBy, sortOrder), for a
\* blank search query and for one that is not blank.
C26_RenderedListSorted ==
    [][ (last.op = "filter" /\ last'.op = "sort")
        => OrderedBy(view'.list, view'.sortBy, view'.sortOrder) ]_vars

\* C27 (purge count counts real purges): the number purgeOlderThan returns
\* is the number of entries this call removed from storage; an entry whose
\* delete() failed is not counted and is in the manager's tree afterwards.
C27_PurgeCountsRealPurges ==
    last.op = "purge"
    => /\ last.ret = "count"
          => last.count = Cardinality({ k \in Deletions(last.log) : last.log[k][3] })
       /\ \A k \in Deletions(last.log) :
            ~last.log[k][3] => \E e \in AllEntries(items) : e.path = last.log[k][2]

\* C28 (purge racing with refresh leaves no ghost entry): when a refresh()
\* has completed between purgeOlderThan's selection of items and its awaited
\* delete() calls, then once both have finished the tree holds no entry whose
\* path the purge deleted from storage.
C28_NoGhostEntry ==
    (tasks = <<>> /\ last.op = "purge")
    => \A e \in AllEntries(items) :
         \A k \in Deletions(last.log) : last.log[k][3] => ~Within(e.path, last.log[k][2])

(***************************************************************************)
(* The plugin: onload(), the list view, the preview banner, the empty      *)
(* command and the confirmation dialog                                     *)
(***************************************************************************)
\* the settings loadSettings() can give the plugin
Settings ==
    [showConfirmations : BOOLEAN, autoPurgeEnabled : BOOLEAN, autoPurgeDays : 1..MaxDays]

\* the storages the plugin is loaded over: the trees of two levels
PluginStorages == { f \in TreeStorages : InTrash(VaultNN) \notin DOMAIN f }

PluginInit ==
    /\ variant \in {"bundle", "modular"}
    /\ fs \in PluginStorages
    /\ items = <<>>
    /\ last = Idle
    /\ view = NoView
    /\ tasks = <<>>
    /\ plugin \in { [NoPlugin EXCEPT !.settings = s, !.phase = "unloaded"] : s \in Settings }

\* a handler of the plugin runs to its end: the manager call it made had
\* outcome `out` and the plugin is left as `plg`
Handles(op, e, days, out, plg) ==
    /\ last = Idle
    /\ \E o \in {out} :
         /\ fs' = o.fs
         /\ items' = o.items
         /\ last' = Done(op, e, days, items, o)
    /\ plugin' = plg
    /\ UNCHANGED <<variant, view, tasks>>

\* a handler that calls nothing on the manager
Nothing == [fs |-> fs, items |-> items, ret |-> "void", count |-> 0, log |-> <<>>]

\* onload(): loadSettings(), new TrashManager(), await refresh()
OnloadRefresh ==
    /\ plugin.phase = "unloaded"
    /\ \E order \in ListOrders :
         \E flt \in Faults(Len(refresh(Ctx(fs, NoFault, order), <<>>).log)) :
           \E out \in {refresh(Ctx(fs, flt, order), <<>>)} :
              Handles("refresh", NoEntry, 0, out,
                      [plugin EXCEPT !.phase = IF out.ret = "threw" THEN "failed"
                                                ELSE "refreshed",
                                     !.purges = 0])

\* a purge that ignores the setting
AutoPurgeWanted_always(settings) == TRUE

\* if (this.settings.autoPurgeEnabled)
AutoPurgeWanted(settings) == settings.autoPurgeEnabled

\* onload() after the initial refresh: the views, the ribbon icon, the
\* commands and the settings tab are registered (no storage call), then the
\* automatic purge runs if it is enabled.  No view is open yet, so the
\* bundle's refreshViews() after a purge refreshes nothing.
OnloadAutoPurge ==
    /\ plugin.phase = "refreshed"
    /\ IF AutoPurgeWanted(plugin.settings)
       THEN LET days == plugin.settings.autoPurgeDays
            IN \E flt \in Faults(Len(purgeOlderThan(Ctx(fs, NoFault, AnyOrder), items, days).log)) :
                 \E out \in {purgeOlderThan(Ctx(fs, flt, AnyOrder), items, days)} :
                    Handles("purge", NoEntry, days, out,
                            [plugin EXCEPT !.phase = IF out.ret = "threw" THEN "failed"
                                                      ELSE "loaded",
                                           !.purges = @ + 1])
       ELSE Handles("loaded", NoEntry, 0, Nothing, [plugin EXCEPT !.phase = "loaded"])

\* onunload() and the next start of the plugin: the views are detached and
\* a new manager with an empty tree is made
Reload ==
    /\ plugin.phase \in {"loaded", "failed"}
    /\ ~plugin.modal.open
    /\ Handles("unload", NoEntry, 0, [Nothing EXCEPT !.items = <<>>],
               [plugin EXCEPT !.phase = "unloaded", !.viewOpen = FALSE, !.purges = 0])

\* the user can act on the plugin: it is loaded and no dialog is in the way
Usable == plugin.phase = "loaded" /\ ~plugin.modal.open

\* activateView(): the list view is opened and renders the refreshed tree
OpenView ==
    /\ Usable
    /\ ~plugin.viewOpen
    /\ Handles("refresh", NoEntry, 0, refresh(Ctx(fs, NoFault, AnyOrder), items),
               [plugin EXCEPT !.viewOpen = TRUE, !.gesture = "open"])

\* the user closes the list view
CloseView ==
    /\ Usable
    /\ plugin.viewOpen
    /\ Handles("close", NoEntry, 0, Nothing,
               [plugin EXCEPT !.viewOpen = FALSE, !.gesture = "close"])

\* a handler that skips the dialog
NeedsConfirmation_never(settings) == FALSE

\* if (this.plugin.settings.showConfirmations)
NeedsConfirmation(settings) == settings.showConfirmations

\* whether what follows the deletion refreshes the manager: the view's
\* refresh() always does, the modular refreshViews() always does, the
\* bundle's refreshViews() only through an open list view
RefreshedAfter(origin) ==
    \/ origin \in {"delete", "empty"}
    \/ variant = "modular"
    \/ plugin.viewOpen

\* the deletion a handler or the dialog's onConfirm performs: item.delete()
\* or trashManager.empty(), then the refresh; `last` tells of the deletion
Destroys(action, e, origin, plg) ==
    \E out \in {IF action = "delete" THEN delete(Ctx(fs, NoFault, AnyOrder), items, e)
                ELSE empty(Ctx(fs, NoFault, AnyOrder), items)} :
      \E shown \in {IF out.ret # "threw" /\ RefreshedAfter(origin)
                    THEN refresh(Ctx(out.fs, NoFault, AnyOrder), out.items)
                    ELSE out} :
        Handles(action, e, 0, [out EXCEPT !.fs = shown.fs, !.items = shown.items], plg)

\* new ConfirmModal(..., onConfirm).open()
Asks(action, e, origin) ==
    Handles("ask", e, 0, Nothing,
            [plugin EXCEPT !.modal = [open |-> TRUE, action |-> action, entry |-> e,
                                      origin |-> origin],
                           !.gesture = origin])

\* the handler deletes at once
Acts(action, e, origin) ==
    Destroys(action, e, origin, [plugin EXCEPT !.gesture = origin])

\* the handler only shows the notice that the bin is empty
Declines(origin) ==
    Handles("notice", NoEntry, 0, Nothing, [plugin EXCEPT !.gesture = origin])

\* RecycleBinView.deleteItem(item), from the delete button of a listed item
ClickDelete ==
    /\ Usable
    /\ plugin.viewOpen
    /\ \E e \in AllEntries(items) :
         IF NeedsConfirmation(plugin.settings) THEN Asks("delete", e, "delete")
         ELSE Acts("delete", e, "delete")

\* the delete button of the preview banner of a trashed file
PreviewDelete ==
    /\ Usable
    /\ \E e \in AllEntries(items) :
         /\ e.kind = "file"
         /\ IF NeedsConfirmation(plugin.settings) THEN Asks("delete", e, "previewDelete")
            ELSE Acts("delete", e, "previewDelete")

\* RecycleBinView.emptyTrash() / emptyAll(), from the toolbar of the view
ClickEmpty ==
    /\ Usable
    /\ plugin.viewOpen
    /\ IF Len(items) = 0 THEN Declines("empty")
       ELSE IF NeedsConfirmation(plugin.settings) THEN Asks("empty", NoEntry, "empty")
       ELSE Acts("empty", NoEntry, "empty")

\* the empty command of the plugin: the modular one refreshes the manager
\* first; both always ask
EmptyCommand ==
    /\ Usable
    /\ \E seen \in {IF variant = "modular"
                     THEN refresh(Ctx(fs, NoFault, AnyOrder), items)
                     ELSE Nothing} :
          IF Len(seen.items) = 0
          THEN Handles("notice", NoEntry, 0, seen, [plugin EXCEPT !.gesture = "emptyCommand"])
          ELSE Handles("ask", NoEntry, 0, seen,
                       [plugin EXCEPT !.modal = [open |-> TRUE, action |-> "empty",
                                                 entry |-> NoEntry,
                                                 origin |-> "emptyCommand"],
                                      !.gesture = "emptyCommand"])

\* the confirm button of the dialog: onConfirm(), then close()
Confirm ==
    /\ plugin.modal.open
    /\ Destroys(plugin.modal.action, plugin.modal.entry, plugin.modal.origin,
                [plugin EXCEPT !.modal = NoModal, !.gesture = "confirm"])

\* the cancel button of the dialog: close()
Cancel ==
    /\ plugin.modal.open
    /\ Handles("cancel", NoEntry, 0, Nothing,
               [plugin EXCEPT !.modal = NoModal, !.gesture = "cancel"])

PluginNext ==
    \/ OnloadRefresh
    \/ OnloadAutoPurge
    \/ Reload
    \/ OpenView
    \/ CloseView
    \/ ClickDelete
    \/ PreviewDelete
    \/ ClickEmpty
    \/ EmptyCommand
    \/ Confirm
    \/ Cancel
    \/ Return

PluginSpec == PluginInit /\ [][PluginNext]_vars

\* no entry lies in the trash folder of the storage
BinEmpty(f) == ~\E p \in DOMAIN f : Beneath(p, TRASH_FOLDER)

\* the step is a handler of the loaded plugin running on a user's gesture
Gesture == plugin.phase = "loaded" /\ last = Idle /\ last' # Idle

\* the step called delete() on an entry or empty() on the manager
Destructive == last'.op \in {"delete", "empty"}

\* C29 (destructive actions are gated): while showConfirmations is true, a
\* step of the user interface calls delete() or empty() only as the confirm
\* button of the open dialog, and it is the call the dialog was opened for;
\* the cancel button closes the dialog and calls neither and leaves the
\* storage as it is; the empty button and the empty command on a bin that
\* holds nothing open no dialog and call neither.
C29_DestructiveActionsGated ==
    [][ Gesture =>
          /\ (plugin.settings.showConfirmations /\ Destructive)
               => /\ plugin.modal.open
                  /\ plugin'.gesture = "confirm"
                  /\ last'.op = plugin.modal.action
                  /\ last'.entry = plugin.modal.entry
          /\ plugin'.gesture = "cancel"
               => (~Destructive /\ fs' = fs /\ ~plugin'.modal.open)
          /\ (plugin'.gesture \in {"empty", "emptyCommand"} /\ BinEmpty(fs))
               => (~Destructive /\ fs' = fs /\ ~plugin'.modal.open) ]_vars

\* a confirmed deletion from the list view went through with confirmations on
C29_Witness ==
    /\ plugin.settings.showConfirmations
    /\ plugin.gesture = "confirm"
    /\ last.op = "delete"
    /\ \E k \in Deletions(last.log) : last.log[k][3]

\* the storage `g` still holds everything `f` holds
Keeps(f, g) == \A p \in DOMAIN f : p \in DOMAIN g /\ g[p] = f[p]

\* C30 (start-up auto-purge ordering): purgeOlderThan is called during a
\* load only with autoPurgeEnabled true, with the threshold of the settings,
\* after the initial refresh of that load has ended normally, and not a
\* second time in the same load; with autoPurgeEnabled false no step of the
\* load takes anything from the storage.
C30_AutoPurgeAfterRefresh ==
    [][ /\ (last = Idle /\ last'.op = "purge")
          => /\ plugin.settings.autoPurgeEnabled
             /\ last'.days = plugin.settings.autoPurgeDays
             /\ plugin.phase = "refreshed"
             /\ plugin.purges = 0
             /\ plugin'.purges = 1
        /\ (~plugin.settings.autoPurgeEnabled /\ plugin.phase \in {"unloaded", "refreshed"})
          => Keeps(fs, fs') ]_vars

\* a load has ended with an automatic purge that removed something
C30_Witness ==
    /\ plugin.phase = "loaded"
    /\ plugin.purges = 1
    /\ last.op = "purge"
    /\ last.count > 0
    /\ \E k \in Deletions(last.log) : last.log[k][3]

====
